---- MODULE Spec2Model ----
(***************************************************************************)
(* Booking / payment / notification orchestration of the service           *)
(* marketplace API (rahus12/xuman).                                        *)
(*                                                                         *)
(* Every HTTP handler is an `async def` whose body calls the synchronous   *)
(* service layer without awaiting, so one handler runs to completion on    *)
(* the event loop before any other handler or task runs: one action per    *)
(* handler.  Every repository call commits on its own, so what a handler   *)
(* wrote before an exception stays persisted.                              *)
(*                                                                         *)
(* The relational constraints are those of init_db.py: payments.booking_id *)
(* is UNIQUE and REFERENCES bookings(id) with no ON DELETE clause.         *)
(***************************************************************************)
EXTENDS Integers, Sequences, FiniteSets, TLC

(***************************************************************************)
(* Bounds of the model.                                                    *)
(***************************************************************************)
MaxBookings == 1
MaxNotifs == 4
MaxConns == 2
MaxSent == 1

NULL == "null"

(***************************************************************************)
(* Static rows of the users and services tables (user registration and     *)
(* the service catalog are external to the orchestration).                 *)
(***************************************************************************)
Users ==
  { [id |-> "u1", email |-> "e1"],
    [id |-> "u2", email |-> "e2"],
    [id |-> "u3", email |-> "e3"] }

NoUser == [id |-> NULL, email |-> NULL]

Services ==
  { [id |-> "s1", providerId |-> "u2", name |-> "svc1", price |-> 100, durationMinutes |-> 60] }

NoService == [id |-> NULL, providerId |-> NULL, name |-> NULL, price |-> 0, durationMinutes |-> 0]

\* e4 is an email with no user row
Emails == {"e1", "e2", "e3", "e4"}
CustomerEmails == {"e1", "e4"}
ServiceIdInputs == {"s1", "s9"}
AmountInputs == {100, 50}
BookingIdInputs == 1..(MaxBookings + 1)
PaymentIdInputs == 1..(MaxBookings + 1)
ScheduledAtInputs == {"t1"}
NotesInputs == {NULL}

BookingStatus == {"pending", "confirmed", "completed", "cancelled"}

\* PAYMENT_FAILURE_RATE and random.random(), both in tenths
FailureRates == {0, 10}
RandomDraws == {0, 9}

failure_reasons ==
  << "Insufficient funds", "Card declined by bank", "Invalid card number",
     "Expired card", "CVV verification failed", "Transaction timeout",
     "Network error", "Card blocked", "Daily limit exceeded",
     "Fraud detection triggered" >>

\* user id the payment service addresses its notifications to
PlaceholderUser == "customer@example.com"

VARIABLES
  bookings,       \* bookings table: id -> row
  nextBookingId,  \* next fresh booking id (uuid4)
  payments,       \* payments table: id -> row
  refunds,        \* refunds table: id -> row
  notifications,  \* notifications table, in insertion order
  tasks,          \* broadcast tasks created by asyncio.create_task, not yet run
  last,           \* the last request and what its caller got
  conns,          \* per SSE connection: its generator, its queue, the frames it yielded,
                  \* and (since) how many notifications were stored when it was opened
  connections,    \* SSEManager._connections: user id -> connections
  subscribers,    \* NotificationsService._subscribers of each service instance
  fault,          \* which notification or e-mail call of the next handler raises
  validated,      \* the validate_payment_method calls made so far, with their results
  reset_tokens,   \* password_reset_tokens table, in insertion order
  passwords,      \* users.password: e-mail -> stored hash
  now,            \* datetime.now(), in hours
  confirmed,      \* the tokens a confirm_password_reset has returned True for
  running         \* the call of a handler that has begun and not returned

vars == <<bookings, nextBookingId, payments, refunds, notifications, tasks, last,
          conns, connections, subscribers, fault, validated,
          reset_tokens, passwords, now, confirmed, running>>

dbvars == <<bookings, nextBookingId, payments, refunds, notifications, tasks>>
ssevars == <<conns, connections, subscribers>>
envvars == <<fault, validated>>
authvars == <<reset_tokens, passwords, now, confirmed>>

\* no call of a handler has begun and not returned
NoCall == [op |-> NULL, bid |-> 0, email |-> NULL, sid |-> NULL, scheduledAt |-> NULL,
           notes |-> NULL, amount |-> 0, pid |-> 0, reason |-> NULL]

(***************************************************************************)
(* Lookups.                                                                *)
(***************************************************************************)
\* Notification service instance of an ordinary request: built per request
\* by the dependency, so nothing ever subscribes to it.  The instance built
\* by the stream request of connection c is numbered c.
RequestInst == 0
ConnIds == 1..MaxConns
StreamUsers == {"e1", "e2"}

get_by_email(email) ==
  IF \E u \in Users : u.email = email
    THEN CHOOSE u \in Users : u.email = email
    ELSE NoUser

get_by_id(id) ==
  IF \E u \in Users : u.id = id
    THEN CHOOSE u \in Users : u.id = id
    ELSE NoUser

\* the lookup answering with a service whatever the id
get_service_Any(sid) == CHOOSE s \in Services : TRUE

get_service(sid) ==
  IF \E s \in Services : s.id = sid
    THEN CHOOSE s \in Services : s.id = sid
    ELSE NoService

get_payment_by_booking(pays, bid) == {p \in DOMAIN pays : pays[p].bookingId = bid}

get_refunds_by_payment(refs, pid) == {r \in DOMAIN refs : refs[r].paymentId = pid}

\* auth.get_password_hash: the bcrypt hash of a password
get_password_hash(password) == <<"bcrypt", password>>

\* fault = k > 0: the k-th create_notification call of a handler raises;
\* fault = EmailFault: the e-mail sends of a handler raise
NoFault == 0
EmailFault == -1
FaultInputs == {NoFault, EmailFault, 1, 2, 3}

Init ==
  /\ bookings = << >>
  /\ nextBookingId = 1
  /\ payments = << >>
  /\ refunds = << >>
  /\ notifications = << >>
  /\ tasks = << >>
  /\ last = [op |-> "init", requester |-> NULL, bid |-> 0, pid |-> 0,
             result |-> NULL, http |-> [status |-> 0, detail |-> NULL], streams |-> {}]
  /\ conns = [c \in ConnIds |->
               [state |-> "unused", user |-> NULL, disconnected |-> FALSE,
                pc |-> "check", queue |-> << >>, sent |-> << >>, since |-> 0]]
  /\ connections = << >>
  /\ subscribers = [inst \in {RequestInst} \cup ConnIds |-> << >>]
  /\ fault = NoFault
  /\ validated = << >>
  /\ reset_tokens = << >>
  /\ passwords = [e \in {u.email : u \in Users} |-> get_password_hash("p0")]
  /\ now = 0
  /\ confirmed = {}
  /\ running = NoCall

(***************************************************************************)
(* The tables a handler works on, as one record, so that a handler that    *)
(* calls other services is the composition of their effects.               *)
(***************************************************************************)
\* calls counts the create_notification calls of the handler; raised is the
\* exception that is propagating, NULL when none is.
DB == [bookings |-> bookings, payments |-> payments, refunds |-> refunds,
       notifications |-> notifications, tasks |-> tasks,
       fault |-> fault, calls |-> 0, raised |-> NULL]

\* datetime columns hold a creation index; 0 is None
NoDatetime == 0

(***************************************************************************)
(* NotificationsService.create_notification: insert the row, then          *)
(* asyncio.create_task(self._broadcast_to_user(userId, row)).              *)
(***************************************************************************)
\* A call that follows a raising statement of the same try block is not
\* reached.  A call that raises persists nothing and schedules nothing.
create_notification_OtherUser(db, inst, userId, type, ref) ==
  LET n == [userId |-> userId, type |-> type, ref |-> ref, isRead |-> FALSE,
            createdAt |-> Len(db.notifications) + 1, readAt |-> NoDatetime]
  IN IF db.raised # NULL THEN db
     ELSE IF db.calls + 1 = db.fault
       THEN [db EXCEPT !.calls = @ + 1, !.raised = "Exception"]
     ELSE [db EXCEPT !.calls = @ + 1,
                     !.notifications = Append(@, n),
                     !.tasks = Append(@, [inst |-> inst, userId |-> "e2",
                                          n |-> Len(db.notifications) + 1])]

create_notification(db, inst, userId, type, ref) ==
  LET n == [userId |-> userId, type |-> type, ref |-> ref, isRead |-> FALSE,
            createdAt |-> Len(db.notifications) + 1, readAt |-> NoDatetime]
  IN IF db.raised # NULL THEN db
     ELSE IF db.calls + 1 = db.fault
       THEN [db EXCEPT !.calls = @ + 1, !.raised = "Exception"]
     ELSE [db EXCEPT !.calls = @ + 1,
                     !.notifications = Append(@, n),
                     !.tasks = Append(@, [inst |-> inst, userId |-> userId,
                                          n |-> Len(db.notifications) + 1])]

create_booking_notification(db, inst, userId, bid, type) ==
  create_notification(db, inst, userId, type, bid)

create_payment_notification(db, inst, userId, pid, type) ==
  create_notification(db, inst, userId, type, pid)

\* EmailService.send_*: the sends touch no stored state
send_emails(db) ==
  IF db.fault = EmailFault THEN [db EXCEPT !.raised = "Exception"] ELSE db

\* the except clause missing: the exception goes on propagating
swallow_Reraise(db) == db

\* except Exception as e: print(...)
swallow(db) == [db EXCEPT !.raised = NULL]

(***************************************************************************)
(* Constraints of the payments table.                                      *)
(***************************************************************************)
\* the UNIQUE constraint left out of the schema
PaymentBookingUnique_Dropped(db, bid) == TRUE

\* booking_id UUID UNIQUE ...
PaymentBookingUnique(db, bid) == get_payment_by_booking(db.payments, bid) = {}

\* ... NOT NULL REFERENCES bookings(id)
PaymentBookingFK(db, bid) == bid \in DOMAIN db.bookings

\* a bookings row referenced by a payments row cannot be deleted (NO ACTION)
BookingReferenced(db, bid) == get_payment_by_booking(db.payments, bid) # {}

(***************************************************************************)
(* PaymentsRepository.create_payment: an IntegrityError rolls back and is  *)
(* re-raised as ValueError.                                                *)
(***************************************************************************)
\* the row stored without the amount asked
create_payment_ZeroAmount(db, payment) ==
  IF PaymentBookingFK(db, payment.bookingId) /\ PaymentBookingUnique(db, payment.bookingId)
    THEN [db |-> [db EXCEPT !.payments = Append(@, [payment EXCEPT !.amount = 0])],
          raised |-> NULL, pid |-> Len(db.payments) + 1]
    ELSE [db |-> db, raised |-> "ValueError", pid |-> 0]

create_payment(db, payment) ==
  IF PaymentBookingFK(db, payment.bookingId) /\ PaymentBookingUnique(db, payment.bookingId)
    THEN [db |-> [db EXCEPT !.payments = Append(@, payment)],
          raised |-> NULL, pid |-> Len(db.payments) + 1]
    ELSE [db |-> db, raised |-> "ValueError", pid |-> 0]

(***************************************************************************)
(* PaymentsService.process_payment.  rate is PAYMENT_FAILURE_RATE, draw is *)
(* random.random(), reason the random.choice of the failure reason.        *)
(***************************************************************************)
\* the failure reason not stored
process_payment_NoReason(db, inst, bid, amount, rate, draw, reason) ==
  LET failed == draw < rate
      payment == [bookingId |-> bid, amount |-> amount,
                  status |-> IF failed THEN "failed" ELSE "completed",
                  failureReason |-> NULL]
      saved == create_payment(db, payment)
      notified == swallow(create_payment_notification(saved.db, inst, PlaceholderUser, saved.pid,
                            IF failed THEN "payment_failed" ELSE "payment_success"))
  IN IF saved.raised # NULL
       THEN [db |-> db, raised |-> saved.raised, pid |-> 0, status |-> NULL]
     ELSE IF notified.raised # NULL
       THEN [db |-> notified, raised |-> notified.raised, pid |-> 0, status |-> NULL]
     ELSE [db |-> notified, raised |-> NULL, pid |-> saved.pid, status |-> payment.status]

process_payment(db, inst, bid, amount, rate, draw, reason) ==
  LET failed == draw < rate
      payment == [bookingId |-> bid, amount |-> amount,
                  status |-> IF failed THEN "failed" ELSE "completed",
                  failureReason |-> IF failed THEN reason ELSE NULL]
      saved == create_payment(db, payment)
      notified == swallow(create_payment_notification(saved.db, inst, PlaceholderUser, saved.pid,
                            IF failed THEN "payment_failed" ELSE "payment_success"))
  IN IF saved.raised # NULL
       THEN [db |-> db, raised |-> saved.raised, pid |-> 0, status |-> NULL]
     ELSE IF notified.raised # NULL
       THEN [db |-> notified, raised |-> notified.raised, pid |-> 0, status |-> NULL]
     ELSE [db |-> notified, raised |-> NULL, pid |-> saved.pid, status |-> payment.status]

(***************************************************************************)
(* PaymentsRepository.create_refund / update_payment_status.               *)
(***************************************************************************)
create_refund(db, refund) == [db EXCEPT !.refunds = Append(@, refund)]

\* the UPDATE matching no row
update_payment_status_NoRow(db, pid, status) == db

update_payment_status(db, pid, status) ==
  [db EXCEPT !.payments[pid].status = status, !.payments[pid].failureReason = NULL]

(***************************************************************************)
(* PaymentsService.process_refund: rid = 0 is the None result.             *)
(***************************************************************************)
\* the check refusing only a payment that is refunded already
RefundEligible_NotRefunded(db, pid) ==
  /\ pid \in DOMAIN db.payments
  /\ db.payments[pid].status # "refunded"

RefundEligible(db, pid) ==
  /\ pid \in DOMAIN db.payments
  /\ db.payments[pid].status = "completed"

\* the eligibility check on the payment's status left out
process_refund_AnyStatus(db, inst, pid, reason) ==
  IF pid \notin DOMAIN db.payments
    THEN [db |-> db, rid |-> 0]
    ELSE LET refund == [paymentId |-> pid, status |-> "completed",
                        amount |-> db.payments[pid].amount,
                        reason |-> IF reason = NULL THEN "Customer requested refund" ELSE reason]
             db1 == create_refund(db, refund)
             db2 == update_payment_status(db1, pid, "refunded")
         IN [db |-> swallow(create_payment_notification(db2, inst, PlaceholderUser, pid,
                                                        "refund_processed")),
             rid |-> Len(db.refunds) + 1]

process_refund(db, inst, pid, reason) ==
  IF ~RefundEligible(db, pid)
    THEN [db |-> db, rid |-> 0]
    ELSE LET refund == [paymentId |-> pid, status |-> "completed",
                        amount |-> db.payments[pid].amount,
                        reason |-> IF reason = NULL THEN "Customer requested refund" ELSE reason]
             db1 == create_refund(db, refund)
             db2 == update_payment_status(db1, pid, "refunded")
         IN [db |-> swallow(create_payment_notification(db2, inst, PlaceholderUser, pid,
                                                        "refund_processed")),
             rid |-> Len(db.refunds) + 1]

(***************************************************************************)
(* BookingsRepository.                                                     *)
(***************************************************************************)
repo_create_booking(db, bid, booking) ==
  [db EXCEPT !.bookings = (bid :> booking) @@ @]

\* the UPDATE writing the creation time as well
repo_update_booking_Touch(db, bid, updated) ==
  IF bid \in DOMAIN db.bookings
    THEN [db |-> [db EXCEPT !.bookings[bid] = [updated EXCEPT !.createdAt = 0]], found |-> TRUE]
    ELSE [db |-> db, found |-> FALSE]

\* None (found |-> FALSE) when no row has the id
repo_update_booking(db, bid, updated) ==
  IF bid \in DOMAIN db.bookings
    THEN [db |-> [db EXCEPT !.bookings[bid] = updated], found |-> TRUE]
    ELSE [db |-> db, found |-> FALSE]

\* DELETE ... RETURNING id: the foreign key of payments makes the statement
\* fail, and nothing here catches the IntegrityError
repo_delete_booking(db, bid) ==
  IF bid \notin DOMAIN db.bookings
    THEN [db |-> db, raised |-> NULL, deleted |-> FALSE]
    ELSE IF BookingReferenced(db, bid)
      THEN [db |-> db, raised |-> "IntegrityError", deleted |-> FALSE]
      ELSE [db |-> [db EXCEPT !.bookings =
                      [b \in DOMAIN db.bookings \ {bid} |-> db.bookings[b]]],
            raised |-> NULL, deleted |-> TRUE]

(***************************************************************************)
(* BookingsService.create_booking.  result is "none" (None returned),      *)
(* "booking" (the confirmed booking returned) or the exception raised.     *)
(* The e-mail sends are wrapped in try/except and touch no state.          *)
(***************************************************************************)
create_booking(db, bid, customer_id, sid, scheduledAt, notes, amount, rate, draw, reason) ==
  LET service == get_service(sid)
      customer == get_by_email(customer_id)
      provider_user == get_by_id(service.providerId)
      booking == [customerId |-> customer.id, serviceId |-> sid,
                  providerId |-> service.providerId, status |-> "pending",
                  scheduledAt |-> scheduledAt, duration |-> service.durationMinutes,
                  totalAmount |-> service.price, notes |-> notes, createdAt |-> bid]
      db1 == repo_create_booking(db, bid, booking)
      pay == process_payment(db1, RequestInst, bid, amount, rate, draw, reason)
      del == repo_delete_booking(pay.db, bid)
      ref == process_refund(del.db, RequestInst, pay.pid, "Payment failed - automatic refund")
      upd == repo_update_booking(pay.db, bid, [booking EXCEPT !.status = "confirmed"])
      mailed == swallow(send_emails(upd.db))
      db2 == create_booking_notification(mailed, RequestInst, customer_id, bid, "booking_created")
      db3 == swallow(create_booking_notification(db2, RequestInst, service.providerId, bid,
                                                 "booking_created"))
  IN IF service = NoService THEN [db |-> db, result |-> "none", bid |-> 0, pid |-> 0]
     ELSE IF customer = NoUser \/ provider_user = NoUser
       THEN [db |-> db, result |-> "none", bid |-> 0, pid |-> 0]
     ELSE IF pay.raised # NULL
       THEN [db |-> pay.db, result |-> pay.raised, bid |-> bid, pid |-> 0]
     ELSE IF pay.status = "failed"
       THEN IF del.raised # NULL
              THEN [db |-> del.db, result |-> del.raised, bid |-> bid, pid |-> pay.pid]
              ELSE [db |-> ref.db, result |-> "none", bid |-> bid, pid |-> pay.pid]
     ELSE IF db3.raised # NULL
       THEN [db |-> db3, result |-> db3.raised, bid |-> bid, pid |-> pay.pid]
     ELSE [db |-> db3, result |-> "booking", bid |-> bid, pid |-> pay.pid]

(***************************************************************************)
(* Authorization check shared by update_booking and delete_booking.        *)
(***************************************************************************)
\* the ownership comparison left out
IsParty_Anyone(booking, user) == TRUE

IsParty(booking, user) ==
  ~(booking.customerId # user.id /\ booking.providerId # user.id)

\* every requester taken for a party of every stored booking
Authorized_Existing(db, bid, email) == bid \in DOMAIN db.bookings

Authorized(db, bid, email) ==
  /\ bid \in DOMAIN db.bookings
  /\ get_by_email(email) # NoUser
  /\ IsParty(db.bookings[bid], get_by_email(email))

(***************************************************************************)
(* BookingsService.update_booking.  A patch field that is NULL is absent.  *)
(***************************************************************************)
\* an update that lets no booking leave CANCELLED or COMPLETED
update_booking_Guarded(db, bid, patch, email) ==
  IF ~Authorized(db, bid, email)
    THEN [db |-> db, result |-> "none"]
    ELSE IF db.bookings[bid].status \in {"cancelled", "completed"}
            /\ patch.status \notin {NULL, db.bookings[bid].status}
      THEN [db |-> db, result |-> "none"]
    ELSE LET existing == db.bookings[bid]
             updated == [existing EXCEPT
                           !.status = IF patch.status # NULL THEN patch.status ELSE @,
                           !.scheduledAt = IF patch.scheduledAt # NULL THEN patch.scheduledAt ELSE @,
                           !.notes = IF patch.notes # NULL THEN patch.notes ELSE @]
             saved == repo_update_booking(db, bid, updated)
             changed == patch.status # NULL /\ patch.status # existing.status
             service == get_service(existing.serviceId)
             mailed == IF changed THEN swallow(send_emails(saved.db)) ELSE saved.db
             db1 == create_booking_notification(mailed, RequestInst, existing.customerId,
                                                bid, "booking_updated")
             db2 == swallow(create_booking_notification(db1, RequestInst, existing.providerId,
                                                        bid, "booking_updated"))
             done == IF changed /\ service # NoService THEN db2 ELSE mailed
         IN IF ~saved.found THEN [db |-> saved.db, result |-> "none"]
            ELSE IF done.raised # NULL THEN [db |-> done, result |-> done.raised]
            ELSE [db |-> done, result |-> "booking"]

update_booking(db, bid, patch, email) ==
  IF ~Authorized(db, bid, email)
    THEN [db |-> db, result |-> "none"]
    ELSE LET existing == db.bookings[bid]
             updated == [existing EXCEPT
                           !.status = IF patch.status # NULL THEN patch.status ELSE @,
                           !.scheduledAt = IF patch.scheduledAt # NULL THEN patch.scheduledAt ELSE @,
                           !.notes = IF patch.notes # NULL THEN patch.notes ELSE @]
             saved == repo_update_booking(db, bid, updated)
             changed == patch.status # NULL /\ patch.status # existing.status
             service == get_service(existing.serviceId)
             mailed == IF changed THEN swallow(send_emails(saved.db)) ELSE saved.db
             db1 == create_booking_notification(mailed, RequestInst, existing.customerId,
                                                bid, "booking_updated")
             db2 == swallow(create_booking_notification(db1, RequestInst, existing.providerId,
                                                        bid, "booking_updated"))
             done == IF changed /\ service # NoService THEN db2 ELSE mailed
         IN IF ~saved.found THEN [db |-> saved.db, result |-> "none"]
            ELSE IF done.raised # NULL THEN [db |-> done, result |-> done.raised]
            ELSE [db |-> done, result |-> "booking"]

(***************************************************************************)
(* BookingsService.delete_booking: "true", "false" or the exception.       *)
(***************************************************************************)
delete_booking(db, bid, email) ==
  IF ~Authorized(db, bid, email)
    THEN [db |-> db, result |-> "false"]
    ELSE LET del == repo_delete_booking(db, bid)
         IN IF del.raised # NULL THEN [db |-> del.db, result |-> del.raised]
            ELSE [db |-> del.db, result |-> IF del.deleted THEN "true" ELSE "false"]

(***************************************************************************)
(* PaymentsService.validate_payment_method.  A card number or CVV is a     *)
(* sequence of character codes, 0..9 being the digits; year and month are  *)
(* those of datetime.now().                                                *)
(***************************************************************************)
isdigit(str) == Len(str) > 0 /\ \A i \in 1..Len(str) : str[i] \in 0..9

\* the check consulting the payments table: a card is refused once a
\* payment is stored
validate_payment_method_Stateful(payment_method, current_year, current_month) ==
  IF payments # << >>
    THEN [valid |-> FALSE, error |-> "Card declined"]
  ELSE IF ~isdigit(payment_method.cardNumber)
    THEN [valid |-> FALSE, error |-> "Card number must contain only digits"]
  ELSE IF payment_method.expiryYear < current_year
    THEN [valid |-> FALSE, error |-> "Card has expired"]
  ELSE IF payment_method.expiryYear = current_year /\ payment_method.expiryMonth < current_month
    THEN [valid |-> FALSE, error |-> "Card has expired"]
  ELSE IF ~isdigit(payment_method.cvv)
    THEN [valid |-> FALSE, error |-> "CVV must contain only digits"]
  ELSE [valid |-> TRUE, error |-> NULL]

validate_payment_method(payment_method, current_year, current_month) ==
  IF ~isdigit(payment_method.cardNumber)
    THEN [valid |-> FALSE, error |-> "Card number must contain only digits"]
  ELSE IF payment_method.expiryYear < current_year
    THEN [valid |-> FALSE, error |-> "Card has expired"]
  ELSE IF payment_method.expiryYear = current_year /\ payment_method.expiryMonth < current_month
    THEN [valid |-> FALSE, error |-> "Card has expired"]
  ELSE IF ~isdigit(payment_method.cvv)
    THEN [valid |-> FALSE, error |-> "CVV must contain only digits"]
  ELSE [valid |-> TRUE, error |-> NULL]

PaymentMethodInputs ==
  { [cardNumber |-> <<4, 1>>, expiryMonth |-> 12, expiryYear |-> 2026, cvv |-> <<1, 2>>],
    [cardNumber |-> <<4, 11>>, expiryMonth |-> 12, expiryYear |-> 2026, cvv |-> <<1, 2>>],
    [cardNumber |-> <<4, 1>>, expiryMonth |-> 1, expiryYear |-> 2026, cvv |-> <<1, 2>>],
    [cardNumber |-> <<4, 1>>, expiryMonth |-> 12, expiryYear |-> 2025, cvv |-> <<1, 2>>],
    [cardNumber |-> <<4, 1>>, expiryMonth |-> 12, expiryYear |-> 2026, cvv |-> <<1, 12>>] }

YearInputs == {2026, 2027}
MonthInputs == {6}

(***************************************************************************)
(* Controllers: the HTTP response built from what the service returned.    *)
(* get_current_user answers 401 before the service is reached when the     *)
(* token's e-mail has no user row.                                         *)
(***************************************************************************)
Response(status, detail) == [status |-> status, detail |-> detail]

Unauthenticated == Response(401, "Could not validate credentials")
InternalError == Response(500, "Internal Server Error")

create_booking_response(email, result) ==
  IF get_by_email(email) = NoUser THEN Unauthenticated
  ELSE IF result = "none"
    THEN Response(400, "Booking creation failed. Payment may have failed or service not found.")
  ELSE IF result = "booking" THEN Response(201, "booking")
  ELSE InternalError

update_booking_response(email, result) ==
  IF get_by_email(email) = NoUser THEN Unauthenticated
  ELSE IF result = "none"
    THEN Response(404, "Booking not found or you don't have permission to update this booking")
  ELSE IF result = "booking" THEN Response(200, "booking")
  ELSE InternalError

delete_booking_response(email, result) ==
  IF get_by_email(email) = NoUser THEN Unauthenticated
  ELSE IF result = "false"
    THEN Response(404, "Booking not found or you don't have permission to delete this booking")
  ELSE IF result = "true" THEN Response(204, NULL)
  ELSE InternalError

process_refund_response(rid) ==
  IF rid = 0
    THEN Response(400, "Refund not possible. Payment not found or not eligible for refund.")
    ELSE Response(201, "refund")

(***************************************************************************)
(* The tables after a handler.                                             *)
(***************************************************************************)
Commit(db) ==
  /\ bookings' = db.bookings
  /\ payments' = db.payments
  /\ refunds' = db.refunds
  /\ notifications' = db.notifications
  /\ tasks' = db.tasks
  /\ UNCHANGED ssevars
  /\ UNCHANGED <<envvars, authvars, running>>

Bounded(db) == Len(db.notifications) <= MaxNotifs

\* streams: the connections that were open while the handler ran
Last(op, requester, bid, pid, result, http) ==
  [op |-> op, requester |-> requester, bid |-> bid, pid |-> pid,
   result |-> result, http |-> http,
   streams |-> {c \in ConnIds : conns[c].state = "open" /\ ~conns[c].disconnected}]

(***************************************************************************)
(* The random draws of one process_payment call: the failure rate read     *)
(* from the environment, random.random(), and random.choice(reasons),      *)
(* which is drawn only when the payment fails.                             *)
(***************************************************************************)
ReasonInputs == {failure_reasons[1]}

ReasonDraws(rate, draw) == IF draw < rate THEN ReasonInputs ELSE {NULL}

(***************************************************************************)
(* POST /bookings/                                                         *)
(***************************************************************************)
CreateBooking(email, sid, scheduledAt, notes, amount) ==
  /\ nextBookingId <= MaxBookings
  /\ \E rate \in FailureRates, draw \in RandomDraws :
       \E reason \in ReasonDraws(rate, draw) :
         LET r == create_booking(DB, nextBookingId, email, sid, scheduledAt, notes,
                                 amount, rate, draw, reason)
         IN /\ Bounded(r.db)
            /\ Commit(r.db)
            /\ nextBookingId' = IF r.bid = 0 THEN nextBookingId ELSE nextBookingId + 1
            /\ last' = Last("create_booking", email, r.bid, r.pid, r.result,
                            create_booking_response(email, r.result))

(***************************************************************************)
(* PUT /bookings/{booking_id}                                              *)
(***************************************************************************)
UpdateBooking(bid, patch, email) ==
  LET r == update_booking(DB, bid, patch, email)
  IN /\ Bounded(r.db)
     /\ Commit(r.db)
     /\ UNCHANGED nextBookingId
     /\ last' = Last("update_booking", email, bid, 0, r.result,
                     update_booking_response(email, r.result))

(***************************************************************************)
(* DELETE /bookings/{booking_id}                                           *)
(***************************************************************************)
DeleteBooking(bid, email) ==
  LET r == delete_booking(DB, bid, email)
  IN /\ Commit(r.db)
     /\ UNCHANGED nextBookingId
     /\ last' = Last("delete_booking", email, bid, 0, r.result,
                     delete_booking_response(email, r.result))

(***************************************************************************)
(* GET /bookings/{booking_id}: BookingsService.get_booking, then the       *)
(* controller's own access check, which compares the booking's customerId  *)
(* and providerId with the e-mail of the current user.                     *)
(***************************************************************************)
NoBooking ==
  [customerId |-> NULL, serviceId |-> NULL, providerId |-> NULL, status |-> NULL,
   scheduledAt |-> NULL, duration |-> 0, totalAmount |-> 0, notes |-> NULL,
   createdAt |-> 0]

get_booking(db, bid) == IF bid \in DOMAIN db.bookings THEN db.bookings[bid] ELSE NoBooking

get_booking_response(db, bid, email) ==
  IF get_by_email(email) = NoUser THEN Unauthenticated
  ELSE IF get_booking(db, bid) = NoBooking THEN Response(404, "Booking not found")
  ELSE IF get_booking(db, bid).customerId # get_by_email(email).email
          /\ get_booking(db, bid).providerId # get_by_email(email).email
    THEN Response(403, "You don't have permission to access this booking")
  ELSE Response(200, "booking")

GetBooking(bid, email) ==
  /\ UNCHANGED <<dbvars, ssevars, envvars, authvars, running>>
  /\ last' = Last("get_booking", email, bid, 0,
                  IF get_booking(DB, bid) = NoBooking THEN "none" ELSE "booking",
                  get_booking_response(DB, bid, email))

(***************************************************************************)
(* POST /payments/process                                                  *)
(***************************************************************************)
ProcessPayment(bid, amount, payment_method, year, month) ==
  LET v == validate_payment_method(payment_method, year, month)
  IN IF ~v.valid
       THEN /\ UNCHANGED dbvars
            /\ UNCHANGED ssevars
            /\ UNCHANGED <<envvars, authvars, running>>
            /\ last' = Last("process_payment", NULL, bid, 0, "invalid", Response(400, v.error))
       ELSE \E rate \in FailureRates, draw \in RandomDraws :
              \E reason \in ReasonDraws(rate, draw) :
                LET r == process_payment(DB, RequestInst, bid, amount, rate, draw, reason)
                IN /\ Bounded(r.db)
                   /\ Commit(r.db)
                   /\ UNCHANGED nextBookingId
                   /\ last' = Last("process_payment", NULL, bid, r.pid,
                                   IF r.raised # NULL THEN r.raised ELSE r.status,
                                   IF r.raised # NULL THEN InternalError
                                   ELSE IF r.status = "failed" THEN Response(402, "Payment failed")
                                   ELSE Response(201, "payment"))

(***************************************************************************)
(* POST /payments/refund                                                   *)
(***************************************************************************)
ProcessRefund(pid, reason) ==
  LET r == process_refund(DB, RequestInst, pid, reason)
  IN /\ Bounded(r.db)
     /\ Commit(r.db)
     /\ UNCHANGED nextBookingId
     /\ last' = Last("process_refund", NULL, 0, pid,
                     IF r.rid = 0 THEN "none" ELSE "refund",
                     process_refund_response(r.rid))

(***************************************************************************)
(* NotificationsService.subscribe_to_notifications /                       *)
(* unsubscribe_from_notifications on one instance's registry.              *)
(***************************************************************************)
Remove(seq, x) ==
  IF \E i \in 1..Len(seq) : seq[i] = x
    THEN LET i == CHOOSE i \in 1..Len(seq) : seq[i] = x /\ \A j \in 1..(i - 1) : seq[j] # x
         IN SubSeq(seq, 1, i - 1) \o SubSeq(seq, i + 1, Len(seq))
    ELSE seq

subscribe_to_notifications(registry, user_id, connection) ==
  IF user_id \in DOMAIN registry
    THEN [registry EXCEPT ![user_id] = Append(@, connection)]
    ELSE (user_id :> <<connection>>) @@ registry

unsubscribe_from_notifications(registry, user_id, connection) ==
  IF user_id \notin DOMAIN registry THEN registry
  ELSE IF Remove(registry[user_id], connection) = << >>
    THEN [u \in DOMAIN registry \ {user_id} |-> registry[u]]
    ELSE [registry EXCEPT ![user_id] = Remove(@, connection)]

(***************************************************************************)
(* json.dumps(notification_data.dict()): the dict keeps createdAt and      *)
(* readAt as datetime objects, which json.dumps cannot serialise.          *)
(***************************************************************************)
json_dumps_raises(notification_data) ==
  notification_data.createdAt # NoDatetime \/ notification_data.readAt # NoDatetime

Frame(notification_data) ==
  [type |-> notification_data.type, userId |-> notification_data.userId,
   ref |-> notification_data.ref]

Ping == [type |-> "ping", userId |-> NULL, ref |-> 0]

(***************************************************************************)
(* NotificationsService._broadcast_to_user, run as a task of the event     *)
(* loop: the queues (asyncio.Queue, unbounded) after the task.  A put on   *)
(* an unbounded queue never fails, so no connection is marked for removal. *)
(***************************************************************************)
broadcast_to_user(cs, registry, user_id, notification) ==
  IF user_id \notin DOMAIN registry THEN cs
  ELSE IF json_dumps_raises(notification) THEN cs
  ELSE [c \in DOMAIN cs |->
          IF \E i \in 1..Len(registry[user_id]) : registry[user_id][i] = c
            THEN [cs[c] EXCEPT !.queue = Append(@, Frame(notification))]
            ELSE cs[c]]

RunBroadcast ==
  /\ tasks # << >>
  /\ LET t == Head(tasks)
     IN conns' = broadcast_to_user(conns, subscribers[t.inst], t.userId, notifications[t.n])
  /\ tasks' = Tail(tasks)
  /\ UNCHANGED <<bookings, nextBookingId, payments, refunds, notifications, last,
                 connections, subscribers, envvars, authvars, running>>

(***************************************************************************)
(* GET /notifications/stream: set_notifications_service with the request's *)
(* own NotificationsService, then SSEManager.add_connection.               *)
(***************************************************************************)
OpenConnection(c, user_id) ==
  /\ conns[c].state = "unused"
  /\ \A d \in ConnIds : d < c => conns[d].state # "unused"
  /\ conns' = [conns EXCEPT ![c] = [@ EXCEPT !.state = "open", !.user = user_id,
                                              !.since = Len(notifications)]]
  /\ connections' = subscribe_to_notifications(connections, user_id, c)
  /\ subscribers' = [subscribers EXCEPT ![c] = subscribe_to_notifications(@, user_id, c)]
  /\ UNCHANGED <<dbvars, last, envvars, authvars, running>>

\* the client goes away
ClientDisconnect(c) ==
  /\ conns[c].state = "open"
  /\ ~conns[c].disconnected
  /\ conns' = [conns EXCEPT ![c].disconnected = TRUE]
  /\ UNCHANGED <<dbvars, last, connections, subscribers, envvars, authvars, running>>

(***************************************************************************)
(* event_generator: the top of the loop.  On disconnection the loop        *)
(* breaks and the finally clause runs SSEManager._remove_connection.       *)
(***************************************************************************)
remove_connection(registry, user_id, queue) ==
  unsubscribe_from_notifications(registry, user_id, queue)

\* the loop not looking at the disconnection
LoopCheck_NoBreak(c) ==
  /\ conns[c].state = "open"
  /\ conns[c].pc = "check"
  /\ conns' = [conns EXCEPT ![c].pc = "wait"]
  /\ UNCHANGED <<dbvars, last, connections, subscribers, envvars, authvars, running>>

LoopCheck(c) ==
  /\ conns[c].state = "open"
  /\ conns[c].pc = "check"
  /\ IF conns[c].disconnected
       THEN /\ conns' = [conns EXCEPT ![c].state = "closed"]
            /\ connections' = remove_connection(connections, conns[c].user, c)
       ELSE /\ conns' = [conns EXCEPT ![c].pc = "wait"]
            /\ UNCHANGED connections
  /\ UNCHANGED <<dbvars, last, subscribers, envvars, authvars, running>>

\* the stream dropped from the connection table when the wait times out
LoopWait_RemoveOnTimeout(c) ==
  /\ conns[c].state = "open"
  /\ conns[c].pc = "wait"
  /\ IF conns[c].queue # << >>
       THEN /\ conns' = [conns EXCEPT ![c] = [@ EXCEPT !.queue = Tail(@), !.pc = "check",
                                                       !.sent = Append(@, Head(conns[c].queue))]]
            /\ UNCHANGED connections
       ELSE /\ conns' = [conns EXCEPT ![c] = [@ EXCEPT !.pc = "check",
                           !.sent = IF Len(@) < MaxSent THEN Append(@, Ping) ELSE @]]
            /\ connections' = remove_connection(connections, conns[c].user, c)
  /\ UNCHANGED <<dbvars, last, subscribers, envvars, authvars, running>>

\* asyncio.wait_for(queue.get(), 30.0): a queued message is yielded, or the
\* wait times out on the empty queue and a ping is yielded.  sent records
\* the first MaxSent pings; the loop goes on yielding pings after that.
LoopWait(c) ==
  /\ conns[c].state = "open"
  /\ conns[c].pc = "wait"
  /\ IF conns[c].queue # << >>
       THEN conns' = [conns EXCEPT ![c] = [@ EXCEPT !.queue = Tail(@), !.pc = "check",
                                                    !.sent = Append(@, Head(conns[c].queue))]]
       ELSE conns' = [conns EXCEPT ![c] = [@ EXCEPT !.pc = "check",
                          !.sent = IF Len(@) < MaxSent THEN Append(@, Ping) ELSE @]]
  /\ UNCHANGED <<dbvars, last, connections, subscribers, envvars, authvars, running>>

(***************************************************************************)
(* POST /notifications/: create_notification with the request's own        *)
(* NotificationsService, for any user id the body names.                   *)
(***************************************************************************)
PostNotification(email, userId, type) ==
  IF get_by_email(email) = NoUser
    THEN /\ UNCHANGED <<dbvars, ssevars, envvars, authvars, running>>
         /\ last' = Last("create_notification", email, 0, 0, "none", Unauthenticated)
    ELSE LET db == create_notification(DB, RequestInst, userId, type, 0)
         IN /\ Bounded(db)
            /\ Commit(db)
            /\ UNCHANGED nextBookingId
            /\ last' = Last("create_notification", email, 0, 0,
                            IF db.raised # NULL THEN db.raised ELSE "notification",
                            IF db.raised # NULL THEN InternalError
                            ELSE Response(200, "notification"))

(***************************************************************************)
(* The environment: a notification or e-mail call of the handlers to come  *)
(* starts or stops failing.                                                *)
(***************************************************************************)
SetFault(k) ==
  /\ fault # k
  /\ fault' = k
  /\ UNCHANGED <<dbvars, last, ssevars, validated, authvars, running>>

(***************************************************************************)
(* One call of validate_payment_method at the date (year, month).  The     *)
(* last two calls are kept, each with its result and with the number of    *)
(* payments stored when it was made.                                       *)
(***************************************************************************)
Validate(payment_method, year, month) ==
  LET v == validate_payment_method(payment_method, year, month)
      call == [instrument |-> payment_method, year |-> year, month |-> month,
               valid |-> v.valid, error |-> v.error, npayments |-> Len(payments)]
  IN /\ validated' = IF Len(validated) < 2 THEN Append(validated, call)
                                            ELSE <<validated[2], call>>
     /\ UNCHANGED <<dbvars, last, ssevars, fault, authvars, running>>

RefundReasonInputs == {NULL, "r1"}

NoPatch == [status |-> NULL, scheduledAt |-> NULL, notes |-> NULL]

PatchInputs ==
  {[NoPatch EXCEPT !.status = st] : st \in {NULL, "confirmed", "cancelled"}}
    \cup {[NoPatch EXCEPT !.scheduledAt = "t2", !.notes = "n2"]}

Next ==
  \/ \E email \in CustomerEmails, sid \in ServiceIdInputs, scheduledAt \in ScheduledAtInputs,
        notes \in NotesInputs, amount \in AmountInputs :
       CreateBooking(email, sid, scheduledAt, notes, amount)
  \/ \E bid \in BookingIdInputs, patch \in PatchInputs, email \in Emails :
       UpdateBooking(bid, patch, email)
  \/ \E bid \in BookingIdInputs, email \in Emails : DeleteBooking(bid, email)
  \/ \E bid \in BookingIdInputs, amount \in AmountInputs, pm \in PaymentMethodInputs,
        year \in YearInputs, month \in MonthInputs :
       ProcessPayment(bid, amount, pm, year, month)
  \/ \E pid \in PaymentIdInputs, reason \in RefundReasonInputs : ProcessRefund(pid, reason)
  \/ RunBroadcast

Spec == Init /\ [][Next]_vars

(***************************************************************************)
(* The notification stream together with the booking saga.                 *)
(***************************************************************************)
NextLive ==
  \/ \E email \in CustomerEmails, sid \in ServiceIdInputs, scheduledAt \in ScheduledAtInputs,
        notes \in NotesInputs, amount \in AmountInputs :
       CreateBooking(email, sid, scheduledAt, notes, amount)
  \/ RunBroadcast
  \/ \E c \in ConnIds, user_id \in StreamUsers : OpenConnection(c, user_id)
  \/ \E c \in ConnIds : ClientDisconnect(c)
  \/ \E c \in ConnIds : LoopCheck(c)
  \/ \E c \in ConnIds : LoopWait(c)

SpecLive == Init /\ [][NextLive]_vars

(***************************************************************************)
(* The payments endpoints together with the booking saga.                  *)
(***************************************************************************)
NextPay ==
  \/ \E email \in CustomerEmails, sid \in ServiceIdInputs, scheduledAt \in ScheduledAtInputs,
        notes \in NotesInputs, amount \in AmountInputs :
       CreateBooking(email, sid, scheduledAt, notes, amount)
  \/ \E bid \in BookingIdInputs, amount \in AmountInputs, pm \in PaymentMethodInputs,
        year \in YearInputs, month \in MonthInputs :
       ProcessPayment(bid, amount, pm, year, month)
  \/ \E pid \in PaymentIdInputs, reason \in RefundReasonInputs : ProcessRefund(pid, reason)
  \/ RunBroadcast

SpecPay == Init /\ [][NextPay]_vars

(***************************************************************************)
(* The bookings endpoints.                                                 *)
(***************************************************************************)
NextBook ==
  \/ \E email \in CustomerEmails, sid \in ServiceIdInputs, scheduledAt \in ScheduledAtInputs,
        notes \in NotesInputs, amount \in AmountInputs :
       CreateBooking(email, sid, scheduledAt, notes, amount)
  \/ \E bid \in BookingIdInputs, patch \in PatchInputs, email \in Emails :
       UpdateBooking(bid, patch, email)
  \/ \E bid \in BookingIdInputs, email \in Emails : DeleteBooking(bid, email)
  \/ RunBroadcast

SpecBook == Init /\ [][NextBook]_vars

(***************************************************************************)
(* The notification endpoint together with the notification stream.        *)
(***************************************************************************)
PostTypeInputs == {"service_created", "service_updated"}
MaxPosts == 2

NextStream ==
  \/ \E email \in {"e1", "e4"}, userId \in {"e1"}, type \in PostTypeInputs :
       Len(notifications) < MaxPosts /\ PostNotification(email, userId, type)
  \/ RunBroadcast
  \/ \E c \in ConnIds, user_id \in StreamUsers : OpenConnection(c, user_id)
  \/ \E c \in ConnIds : ClientDisconnect(c)
  \/ \E c \in ConnIds : LoopCheck(c)
  \/ \E c \in ConnIds : LoopWait(c)

SpecStream == Init /\ [][NextStream]_vars

(***************************************************************************)
(* The bookings endpoints that notify, with failing notification and       *)
(* e-mail calls.  The broadcast tasks they leave stay pending: no booking  *)
(* handler reads what a task does.                                         *)
(***************************************************************************)
FaultPatchInputs == {[NoPatch EXCEPT !.status = st] : st \in {"confirmed", "cancelled"}}

NextFault ==
  \/ CreateBooking("e1", "s1", "t1", NULL, 100)
  \/ \E bid \in BookingIdInputs, patch \in FaultPatchInputs : UpdateBooking(bid, patch, "e1")
  \/ \E k \in FaultInputs : SetFault(k)

SpecFault == Init /\ [][NextFault]_vars

(***************************************************************************)
(* Card validation between bookings and payments.                          *)
(***************************************************************************)
ValidateInputs ==
  { [cardNumber |-> <<4, 1>>, expiryMonth |-> 12, expiryYear |-> 2026, cvv |-> <<1, 2>>],
    [cardNumber |-> <<4, 11>>, expiryMonth |-> 12, expiryYear |-> 2026, cvv |-> <<1, 2>>] }

NextValidate ==
  \/ \E pm \in ValidateInputs, year \in YearInputs, month \in MonthInputs :
       Validate(pm, year, month)
  \/ CreateBooking("e1", "s1", "t1", NULL, 100)
  \/ \E bid \in BookingIdInputs, pm \in ValidateInputs,
        year \in YearInputs, month \in MonthInputs :
       ProcessPayment(bid, 100, pm, year, month)
  \/ RunBroadcast

SpecValidate == Init /\ [][NextValidate]_vars

(***************************************************************************)
(* PasswordResetRepository.  A token is valid while it is unused and its   *)
(* expiry lies after now.                                                  *)
(***************************************************************************)
expires_in_hours == 24

create_reset_token(rows, email, token, t) ==
  Append(rows, [email |-> email, token |-> token, expiresAt |-> t + expires_in_hours,
                isUsed |-> FALSE])

\* the WHERE clause without is_used = false
get_valid_token_IgnoreUsed(rows, token, t) ==
  {i \in 1..Len(rows) : rows[i].token = token /\ rows[i].expiresAt > t}

get_valid_token(rows, token, t) ==
  {i \in 1..Len(rows) : rows[i].token = token /\ ~rows[i].isUsed /\ rows[i].expiresAt > t}

mark_token_as_used(rows, token) ==
  [i \in 1..Len(rows) |->
     IF rows[i].token = token THEN [rows[i] EXCEPT !.isUsed = TRUE] ELSE rows[i]]

(***************************************************************************)
(* POST /password-reset/request: an unknown e-mail is answered like a      *)
(* known one.  The token is fresh (secrets.choice over 32 characters).     *)
(***************************************************************************)
MaxTokens == 2
MaxClock == 48
TokenInputs == 1..(MaxTokens + 1)
PasswordInputs == {"p1", "p2"}

RequestReset(email) ==
  /\ IF get_by_email(email) = NoUser
       THEN UNCHANGED reset_tokens
       ELSE /\ Len(reset_tokens) < MaxTokens
            /\ reset_tokens' = create_reset_token(reset_tokens, email, Len(reset_tokens) + 1, now)
  /\ last' = Last("request_password_reset", email, 0, 0, "true", Response(200, "success"))
  /\ UNCHANGED <<dbvars, ssevars, envvars, running, passwords, now, confirmed>>

(***************************************************************************)
(* POST /password-reset/confirm: PasswordResetService.                     *)
(* confirm_password_reset.  The UPDATE of users is built on a text()       *)
(* table; whether the driver executes or rejects it depends on the         *)
(* installed SQLAlchemy, so both outcomes are kept: update_raises is the   *)
(* rejection, which the except clause turns into False.                    *)
(***************************************************************************)
ConfirmReset(token, new_password) ==
  LET valid == get_valid_token(reset_tokens, token, now)
      row == reset_tokens[CHOOSE i \in valid : TRUE]
  IN \E update_raises \in BOOLEAN :
       IF valid = {} \/ get_by_email(row.email) = NoUser \/ update_raises
         THEN /\ (valid = {} => ~update_raises)
              /\ UNCHANGED <<reset_tokens, passwords, confirmed>>
              /\ last' = Last("confirm_password_reset", NULL, token, 0, "false",
                              Response(400, "Invalid or expired reset token"))
              /\ UNCHANGED <<dbvars, ssevars, envvars, running, now>>
         ELSE /\ passwords' = [passwords EXCEPT ![row.email] = get_password_hash(new_password)]
              /\ reset_tokens' = mark_token_as_used(reset_tokens, token)
              /\ confirmed' = confirmed \cup {token}
              /\ last' = Last("confirm_password_reset", NULL, token, 0, "true",
                              Response(200, "Password has been successfully reset"))
              /\ UNCHANGED <<dbvars, ssevars, envvars, running, now>>

\* time passes
Tick ==
  /\ now < MaxClock
  /\ now' = now + expires_in_hours \div 2
  /\ UNCHANGED <<dbvars, last, ssevars, envvars, running, reset_tokens, passwords, confirmed>>

NextReset ==
  \/ \E email \in {"e1", "e2", "e4"} : RequestReset(email)
  \/ \E token \in TokenInputs, new_password \in PasswordInputs : ConfirmReset(token, new_password)
  \/ Tick

SpecReset == Init /\ [][NextReset]_vars

(***************************************************************************)
(* Creating bookings and reading them.                                     *)
(***************************************************************************)
NextRead ==
  \/ \E sid \in ServiceIdInputs, amount \in AmountInputs :
       CreateBooking("e1", sid, "t1", NULL, amount)
  \/ \E bid \in BookingIdInputs, email \in Emails : GetBooking(bid, email)
  \/ RunBroadcast

SpecRead == Init /\ [][NextRead]_vars

(***************************************************************************)
(*                              PROPERTIES                                 *)
(***************************************************************************)
PaymentsOf(bid) == get_payment_by_booking(payments, bid)

SagaConfirmed(bid) ==
  /\ bid \in DOMAIN bookings
  /\ bookings[bid].status = "confirmed"
  /\ Cardinality({p \in PaymentsOf(bid) : payments[p].status = "completed"}) = 1

SagaRolledBack(bid) ==
  /\ bid \notin DOMAIN bookings
  /\ \E p \in PaymentsOf(bid) :
       /\ payments[p].status = "failed"
       /\ \E r \in get_refunds_by_payment(refunds, p) : refunds[r].status = "completed"

\* a create_booking call that got past validation has just returned
SagaRan == last.op = "create_booking" /\ last.bid # 0

SagaPaymentFailed == SagaRan /\ last.pid # 0 /\ payments[last.pid].status = "failed"

\* C1: after a CreateBooking call that got past validation, either the
\* booking is CONFIRMED with exactly one completed payment, or the booking does
\* not exist while a failed payment and a completed refund of it exist.
C1_SagaAtomicity ==
  SagaRan => /\ SagaConfirmed(last.bid) \/ SagaRolledBack(last.bid)
             /\ ~(SagaConfirmed(last.bid) /\ SagaRolledBack(last.bid))

\* C2: in every reachable state a booking is CONFIRMED only if a payment for
\* it reached completed (a payment leaves completed only to become refunded).
C2_ConfirmedOnlyIfPaid ==
  \A bid \in DOMAIN bookings :
    bookings[bid].status = "confirmed" =>
      \E p \in PaymentsOf(bid) : payments[p].status \in {"completed", "refunded"}

\* C3: after a CreateBooking call whose payment failed, the booking is not
\* retrievable, the caller got no booking, and the failed payment is persisted.
C3_FailedBookingDeleted ==
  SagaPaymentFailed =>
    /\ last.bid \notin DOMAIN bookings
    /\ last.result = "none"
    /\ payments[last.pid].bookingId = last.bid

\* C4: after a CreateBooking call whose payment failed, the refunds of that
\* payment are exactly one refund with status completed, next to the one
\* payment with status failed.
C4_CompensationRefund ==
  SagaPaymentFailed =>
    /\ Cardinality(get_refunds_by_payment(refunds, last.pid)) = 1
    /\ \A r \in get_refunds_by_payment(refunds, last.pid) : refunds[r].status = "completed"
    /\ Cardinality(PaymentsOf(last.bid)) = 1

\* C5: ProcessRefund for a payment id that does not exist, or whose payment
\* is not completed, returns none, creates no refund row, creates no
\* notification (and schedules no broadcast) and leaves the payments unchanged.
C5_RefundPrecondition ==
  [][last'.op = "process_refund" =>
       \A pid \in PaymentIdInputs, reason \in RefundReasonInputs :
         (/\ pid \notin DOMAIN payments \/ payments[pid].status # "completed"
          /\ ProcessRefund(pid, reason))
         => /\ last'.result = "none"
            /\ last'.http.status = 400
            /\ UNCHANGED <<payments, refunds, notifications, tasks>>]_vars

C5_Witness ==
  /\ last.op = "process_refund"
  /\ last.result = "none"
  /\ last.pid \in DOMAIN payments
  /\ payments[last.pid].status \in {"failed", "refunded"}

\* C6: ProcessRefund on a completed payment creates exactly one refund row,
\* with that payment's id, the payment's amount and status completed, and
\* sets the payment's status to refunded.
C6_RefundPostcondition ==
  [][last'.op = "process_refund" =>
       \A pid \in PaymentIdInputs, reason \in RefundReasonInputs :
         (/\ pid \in DOMAIN payments /\ payments[pid].status = "completed"
          /\ ProcessRefund(pid, reason))
         => /\ Len(refunds') = Len(refunds) + 1
            /\ SubSeq(refunds', 1, Len(refunds)) = refunds
            /\ refunds'[Len(refunds')].paymentId = pid
            /\ refunds'[Len(refunds')].amount = payments[pid].amount
            /\ refunds'[Len(refunds')].status = "completed"
            /\ Cardinality(get_refunds_by_payment(refunds', pid)) = 1
            /\ payments'[pid].status = "refunded"
            /\ last'.result = "refund"]_vars

C6_Witness ==
  /\ last.op = "process_refund"
  /\ last.result = "refund"
  /\ payments[last.pid].status = "refunded"
  /\ get_refunds_by_payment(refunds, last.pid) # {}

PartyOf(bid, email) ==
  /\ bid \in DOMAIN bookings
  /\ \E u \in Users : u.email = email /\ u.id \in {bookings[bid].customerId, bookings[bid].providerId}

\* C8: for every booking and requester, UpdateBooking and DeleteBooking
\* succeed if and only if the requester is the booking's customer or provider.
C8_AuthorizationIff ==
  [][\A bid \in BookingIdInputs, email \in Emails :
       /\ \A patch \in PatchInputs :
            UpdateBooking(bid, patch, email) =>
              (last'.result = "booking" <=> PartyOf(bid, email))
       /\ DeleteBooking(bid, email) =>
              (last'.result = "true" <=> PartyOf(bid, email))]_vars

\* what a requester sees of an update or a delete
UpdateSeen(bid, patch, email) ==
  LET r == update_booking(DB, bid, patch, email)
  IN <<r.result, update_booking_response(email, r.result)>>

DeleteSeen(bid, email) ==
  LET r == delete_booking(DB, bid, email)
  IN <<r.result, delete_booking_response(email, r.result)>>

NotAParty(email) == \A bid \in DOMAIN bookings : ~PartyOf(bid, email)

FramesOf(c) ==
  {conns[c].queue[i] : i \in 1..Len(conns[c].queue)}
    \cup {conns[c].sent[i] : i \in 1..Len(conns[c].sent)}

\* the e-mails of the customer and the provider of a booking
PartyEmails(bid) ==
  {u.email : u \in {u \in Users : u.id \in {bookings[bid].customerId, bookings[bid].providerId}}}

\* the streams of user e-mail e that were open during the last handler and
\* are still open
StreamsOf(e) ==
  {c \in last.streams : conns[c].state = "open" /\ conns[c].user = e}

\* C10: when CreateBooking succeeded while the customer and the provider each
\* held an open stream, then once every broadcast task has run each of those
\* streams has been handed a BOOKING_CREATED frame for the booking.
C10_LiveDelivery ==
  (/\ last.op = "create_booking" /\ last.result = "booking"
   /\ tasks = << >>
   /\ \A e \in PartyEmails(last.bid) : StreamsOf(e) # {})
  => \A e \in PartyEmails(last.bid) : \A c \in StreamsOf(e) :
       \E f \in FramesOf(c) : f.type = "booking_created" /\ f.ref = last.bid

\* the frames connection c has been handed so far, oldest first
FrameSeq(c) == conns[c].sent \o conns[c].queue

\* C11: for two notifications of one recipient, of which N1 was created
\* before N2, a stream of that recipient that has been open since before N1
\* has, once every broadcast task has run, been handed N1's frame and after it
\* N2's frame (pings may lie between them).
C11_PerRecipientFifo ==
  tasks = << >> =>
    \A c \in ConnIds :
      (conns[c].state = "open" /\ ~conns[c].disconnected) =>
        \A i, j \in 1..Len(notifications) :
          (/\ i < j
           /\ conns[c].since < i
           /\ notifications[i].userId = conns[c].user
           /\ notifications[j].userId = conns[c].user
           /\ notifications[i].type # notifications[j].type)
          => \E p, q \in 1..Len(FrameSeq(c)) :
               /\ p < q
               /\ FrameSeq(c)[p] = Frame(notifications[i])
               /\ FrameSeq(c)[q] = Frame(notifications[j])

\* connection c is listed in a registry of user id -> connections
InRegistry(registry, c) ==
  \E u \in DOMAIN registry : \E i \in 1..Len(registry[u]) : registry[u][i] = c

\* C12: a stream whose loop has exited is listed neither in the connection
\* table of the SSE manager nor in the subscriber registry of any
\* notifications service.
C12_GuaranteedCleanup ==
  \A c \in ConnIds :
    conns[c].state = "closed" =>
      /\ ~InRegistry(connections, c)
      /\ \A inst \in DOMAIN subscribers : ~InRegistry(subscribers[inst], c)

\* the database as a handler finds it when none of its notification and
\* e-mail calls raises
FaultFree == [DB EXCEPT !.fault = NoFault]

\* what a booking handler answered and what it left in the booking and
\* payment tables
Outcome(r, http) == <<r.result, http, r.db.bookings, r.db.payments>>

\* C13: a notification or e-mail call that raises changes neither what
\* CreateBooking and UpdateBooking return nor the stored bookings and
\* payments: wherever the handler succeeds without the failure it returns
\* the same booking with the failure, with the same HTTP response.
C13_NotificationIndependence ==
  fault # NoFault =>
    /\ \A rate \in FailureRates, draw \in RandomDraws :
         \A reason \in ReasonDraws(rate, draw) :
           LET r0 == create_booking(FaultFree, nextBookingId, "e1", "s1", "t1", NULL,
                                    100, rate, draw, reason)
               rk == create_booking(DB, nextBookingId, "e1", "s1", "t1", NULL,
                                    100, rate, draw, reason)
           IN r0.result = "booking" =>
                /\ Outcome(rk, create_booking_response("e1", rk.result))
                     = Outcome(r0, Response(201, "booking"))
                /\ rk.bid = r0.bid
    /\ \A bid \in DOMAIN bookings, patch \in PatchInputs, email \in {"e1", "e3"} :
         LET r0 == update_booking(FaultFree, bid, patch, email)
             rk == update_booking(DB, bid, patch, email)
         IN r0.result = "booking" =>
              Outcome(rk, update_booking_response(email, rk.result))
                = Outcome(r0, Response(200, "booking"))

\* the notifications stored with reference bid: those about booking bid and,
\* as payment ids count from 1 as well, the one about payment bid
NotificationsOf(bid) ==
  {i \in 1..Len(notifications) : notifications[i].ref = bid}

\* CreateBooking returned the confirmed booking although a notification
\* call raised: fewer than the payment notification and the two booking
\* notifications were stored.
C13_Witness ==
  /\ last.op = "create_booking"
  /\ last.result = "booking"
  /\ last.http = Response(201, "booking")
  /\ fault \in {1, 2, 3}
  /\ bookings[last.bid].status = "confirmed"
  /\ Cardinality(NotificationsOf(last.bid)) < 3

\* the notifications the step has stored
Added == SubSeq(notifications', Len(notifications) + 1, Len(notifications'))

\* C14: a successful UpdateBooking stores notifications exactly when it
\* changed the status; they are of type BOOKING_CANCELLED when the new status
\* is CANCELLED and of type BOOKING_UPDATED otherwise.
C14_UpdateNotificationType ==
  [][(last'.op = "update_booking" /\ last'.result = "booking") =>
       LET old == bookings[last'.bid].status
           new == bookings'[last'.bid].status
       IN IF new = old
            THEN Added = << >>
            ELSE /\ Added # << >>
                 /\ \A i \in 1..Len(Added) :
                      /\ Added[i].ref = last'.bid
                      /\ Added[i].type = IF new = "cancelled" THEN "booking_cancelled"
                                         ELSE "booking_updated"]_vars

\* the e-mail of the user with id uid: the identity notifications are read
\* and streamed by
EmailOf(uid) == {u.email : u \in {u \in Users : u.id = uid}}

\* C15: a CreateBooking that succeeds stores exactly two BOOKING_CREATED
\* notifications for the booking, one addressed to the customer and one to
\* the provider, each under the identity that user reads notifications by;
\* a CreateBooking that fails stores none.
C15_TwoCreatedNotifications ==
  [][last'.op = "create_booking" =>
       LET created == {i \in 1..Len(Added) : Added[i].type = "booking_created"}
       IN IF last'.result = "booking" /\ nextBookingId' # nextBookingId
            THEN /\ Cardinality(created) = 2
                 /\ \A i \in created : Added[i].ref = last'.bid
                 /\ \E i \in created :
                      Added[i].userId \in EmailOf(bookings'[last'.bid].customerId)
                 /\ \E i \in created :
                      Added[i].userId \in EmailOf(bookings'[last'.bid].providerId)
            ELSE created = {}]_vars

\* C16: a CreateBooking whose service id names no service, whose customer
\* has no user row or whose provider has no user row returns failure and
\* stores nothing: no booking, payment, refund or notification.
C16_ValidationFailureCreatesNothing ==
  [][last'.op = "create_booking" =>
       \A email \in CustomerEmails, sid \in ServiceIdInputs, scheduledAt \in ScheduledAtInputs,
          notes \in NotesInputs, amount \in AmountInputs :
         (/\ \/ sid \notin {s.id : s \in Services}
             \/ email \notin {u.email : u \in Users}
             \/ \A s \in Services : s.id = sid => s.providerId \notin {u.id : u \in Users}
          /\ CreateBooking(email, sid, scheduledAt, notes, amount))
         => /\ last'.result = "none"
            /\ last'.bid = 0
            /\ last'.http.status \in {400, 401}
            /\ UNCHANGED <<bookings, payments, refunds, notifications, tasks, nextBookingId>>]_vars

\* an authenticated customer asked for a service that does not exist
C16_Witness ==
  /\ last.op = "create_booking"
  /\ last.requester = "e1"
  /\ last.result = "none"
  /\ last.bid = 0
  /\ last.http.status = 400
  /\ nextBookingId = 1

\* C17: whatever makes CreateBooking fail (missing service, missing user,
\* declined payment), an authenticated caller gets the one same result: no
\* booking, answered with the one 400 response.
C17_UniformFailure ==
  (/\ last.op = "create_booking"
   /\ last.result # "booking"
   /\ get_by_email(last.requester) # NoUser)
  => /\ last.result = "none"
     /\ last.http = Response(400, "Booking creation failed. Payment may have failed or service not found.")

\* C18: a DeleteBooking by the customer or the provider deletes the booking,
\* whatever its status and whether or not a payment references it: the
\* handler answers true and the booking is no longer stored.
C18_DeleteAlwaysDeletes ==
  [][last'.op = "delete_booking" =>
       \A bid \in DOMAIN bookings, email \in Emails :
         (PartyOf(bid, email) /\ DeleteBooking(bid, email))
         => /\ last'.result = "true"
            /\ bid \notin DOMAIN bookings']_vars

FailureReasonSet == {failure_reasons[i] : i \in DOMAIN failure_reasons}

\* the step stored one payment, for booking bid and the amount asked, and
\* the handler returned it; a failed one carries a reason of the fixed list
OnePaymentStored(bid, amount) ==
  /\ Len(payments') = Len(payments) + 1
  /\ last'.pid = Len(payments')
  /\ payments'[last'.pid].bookingId = bid
  /\ payments'[last'.pid].amount = amount
  /\ \/ payments'[last'.pid].status = "completed" /\ payments'[last'.pid].failureReason = NULL
     \/ payments'[last'.pid].status = "failed"
          /\ payments'[last'.pid].failureReason \in FailureReasonSet

SameAnswer(a, b) == a.valid = b.valid /\ a.error = b.error

C21_ReadExactlyForParties ==
  (/\ last.op = "get_booking"
   /\ last.bid \in DOMAIN bookings
   /\ get_by_email(last.requester) # NoUser)
  => IF PartyOf(last.bid, last.requester)
       THEN last.http.status = 200
       ELSE last.http.status = 403

\* the token was issued and its expiry has not passed
Unexpired(token) ==
  \E i \in 1..Len(reset_tokens) :
    reset_tokens[i].token = token /\ now < reset_tokens[i].expiresAt

C25_PaymentLifecycle ==
  [][/\ \A p \in DOMAIN payments' \ DOMAIN payments :
          payments'[p].status \in {"completed", "failed"}
     /\ \A p \in DOMAIN payments :
          /\ p \in DOMAIN payments'
          /\ payments'[p].status # payments[p].status =>
               /\ payments[p].status = "completed"
               /\ payments'[p].status = "refunded"
               /\ Len(refunds') = Len(refunds) + 1
               /\ refunds'[Len(refunds')].paymentId = p
               /\ refunds'[Len(refunds')].status = "completed"]_vars

\* a refund was asked for a payment that is refunded already, and the
\* payment is still refunded
C25_Witness ==
  /\ last.op = "process_refund"
  /\ last.result = "none"
  /\ last.pid \in DOMAIN payments
  /\ payments[last.pid].status = "refunded"
  /\ Cardinality(get_refunds_by_payment(refunds, last.pid)) = 1

\* C26: every stored payment has a failure reason exactly when its status is
\* failed.
C26_FailureReasonIffFailed ==
  \A p \in DOMAIN payments :
    payments[p].failureReason # NULL <=> payments[p].status = "failed"

\* a failed payment with its reason is stored
C26_Witness ==
  \E p \in DOMAIN payments :
    payments[p].status = "failed" /\ payments[p].failureReason \in FailureReasonSet

\* the streams of the user a notification is addressed to that were open,
\* with their client connected, from before the notification was stored
\* until now
OpenThroughout(n) ==
  {c \in ConnIds : /\ conns[c].state = "open" /\ ~conns[c].disconnected
                   /\ conns[c].user = notifications[n].userId
                   /\ conns[c].since < n}

\* how often connection c has been handed the frame of notification n
Handed(c, n) ==
  Cardinality({p \in 1..Len(FrameSeq(c)) : FrameSeq(c)[p] = Frame(notifications[n])})

\* C27: once every broadcast task has run, the one stored notification has
\* been put, once, on every stream of its user that has been open since
\* before it was created, also when the user has several streams.
C27_FanOut ==
  (tasks = << >> /\ Len(notifications) = 1) =>
    \A c \in OpenThroughout(1) : Handed(c, 1) = 1

\* C28: a stream of the user that was opened before the last notification
\* was created and whose client was gone when it was created is, once the
\* broadcast of that notification has run, registered with no notifications
\* service any more.
C28_StaleChannelRemoved ==
  (last.op = "create_notification" /\ last.result = "notification" /\ tasks = << >>) =>
    \A c \in ConnIds :
      (/\ conns[c].state # "unused"
       /\ conns[c].user = notifications[Len(notifications)].userId
       /\ conns[c].since < Len(notifications)
       /\ c \notin last.streams)
      => \A inst \in DOMAIN subscribers : ~InRegistry(subscribers[inst], c)

\* no connection is listed twice in a registry, and every stream whose loop
\* is running is listed under its user
RegistryConsistent(registry) ==
  /\ \A u \in DOMAIN registry : \A i, j \in 1..Len(registry[u]) :
       registry[u][i] = registry[u][j] => i = j
  /\ \A c \in ConnIds :
       conns[c].state = "open" =>
         /\ conns[c].user \in DOMAIN registry
         /\ \E i \in 1..Len(registry[conns[c].user]) : registry[conns[c].user][i] = c

\* C29: under every interleaving of opening streams, closing streams and
\* broadcasts, the connection table lists every running stream once, and a
\* stream that stayed open from before a notification was created until its
\* broadcast has run has been handed that notification's frame exactly once,
\* whatever other streams of the user were opened or closed meanwhile.
C29_RegistryInterleaving ==
  /\ RegistryConsistent(connections)
  /\ tasks = << >> =>
       \A n \in 1..Len(notifications) :
         (\A k \in 1..Len(notifications) : notifications[k] = notifications[n] => k = n)
         => \A c \in OpenThroughout(n) : Handed(c, n) = 1

(***************************************************************************)
(* POST /notifications/ for either user, the broadcast tasks and the       *)
(* streams being opened and closed: which queue is handed which frame.     *)
(***************************************************************************)
NextIsolate ==
  \/ \E userId \in StreamUsers :
       Len(notifications) < MaxPosts /\ PostNotification("e1", userId, "service_created")
  \/ RunBroadcast
  \/ \E c \in ConnIds, user_id \in StreamUsers : OpenConnection(c, user_id)
  \/ \E c \in ConnIds : ClientDisconnect(c)
  \/ \E c \in ConnIds : LoopCheck(c)

SpecIsolate == Init /\ [][NextIsolate]_vars

C23_SagaTerminates ==
  SagaRan =>
    \/ last.bid \notin DOMAIN bookings
    \/ /\ bookings[last.bid].status = "confirmed"
       /\ last.pid # 0
       /\ payments[last.pid].bookingId = last.bid

(***************************************************************************)
(* GET /bookings/: BookingsRepository.list_bookings compares the UUID      *)
(* columns customer_id and provider_id with the strings it is given; the   *)
(* controller passes the e-mail of the current user when the query names   *)
(* no customerId.                                                          *)
(***************************************************************************)
\* the strings PostgreSQL accepts as input of a UUID column
IsUuid(x) == x \in {u.id : u \in Users}

list_bookings(db, customer_id, provider_id) ==
  IF \/ customer_id # NULL /\ ~IsUuid(customer_id)
     \/ provider_id # NULL /\ ~IsUuid(provider_id)
    THEN [rows |-> {}, raised |-> "DataError"]
    ELSE [rows |-> {b \in DOMAIN db.bookings :
                      /\ customer_id # NULL => db.bookings[b].customerId = customer_id
                      /\ provider_id # NULL => db.bookings[b].providerId = provider_id},
          raised |-> NULL]

list_bookings_controller(db, email, customerId, providerId) ==
  list_bookings(db, IF customerId = NULL THEN email ELSE customerId, providerId)

ListBookings(email, customerId, providerId) ==
  /\ UNCHANGED <<dbvars, ssevars, envvars, authvars, running>>
  /\ last' = IF get_by_email(email) = NoUser
               THEN Last("list_bookings", email, 0, 0, "none", Unauthenticated)
             ELSE IF list_bookings_controller(DB, email, customerId, providerId).raised # NULL
               THEN Last("list_bookings", email, 0, 0, "DataError", InternalError)
             ELSE Last("list_bookings", email,
                       Cardinality(list_bookings_controller(DB, email, customerId, providerId).rows),
                       0, "bookings", Response(200, "bookings"))

(***************************************************************************)
(* create_booking seen at its repository calls.  Each repository call      *)
(* commits, so the PENDING row is in the table from the insert on; the     *)
(* handler is an async def that awaits nothing, and the application runs   *)
(* as one uvicorn process, so the event loop starts no other handler       *)
(* before the call returns.                                                *)
(***************************************************************************)
\* handlers run in threads of their own
EventLoopFree_Threaded == TRUE

EventLoopFree == running = NoCall

\* up to and including bookings_repo.create_booking
CreateBookingInsert(email, sid, scheduledAt, notes, amount) ==
  /\ EventLoopFree
  /\ nextBookingId <= MaxBookings
  /\ get_service(sid) # NoService
  /\ get_by_email(email) # NoUser
  /\ get_by_id(get_service(sid).providerId) # NoUser
  /\ bookings' = repo_create_booking(DB, nextBookingId,
                   [customerId |-> get_by_email(email).id, serviceId |-> sid,
                    providerId |-> get_service(sid).providerId, status |-> "pending",
                    scheduledAt |-> scheduledAt,
                    duration |-> get_service(sid).durationMinutes,
                    totalAmount |-> get_service(sid).price, notes |-> notes,
                    createdAt |-> nextBookingId]).bookings
  /\ nextBookingId' = nextBookingId + 1
  /\ running' = [NoCall EXCEPT !.op = "create_booking", !.bid = nextBookingId,
                                !.email = email, !.sid = sid, !.scheduledAt = scheduledAt,
                                !.notes = notes, !.amount = amount]
  /\ UNCHANGED <<payments, refunds, notifications, tasks, last, ssevars, envvars, authvars>>

\* the rest of the call: the operator repeats the insert of the same row,
\* which changes nothing
CreateBookingReturn ==
  /\ running.op = "create_booking"
  /\ \E rate \in FailureRates, draw \in RandomDraws :
       \E reason \in ReasonDraws(rate, draw) :
         LET r == create_booking(DB, running.bid, running.email, running.sid,
                                 running.scheduledAt, running.notes, running.amount,
                                 rate, draw, reason)
         IN /\ Bounded(r.db)
            /\ bookings' = r.db.bookings
            /\ payments' = r.db.payments
            /\ refunds' = r.db.refunds
            /\ notifications' = r.db.notifications
            /\ tasks' = r.db.tasks
            /\ last' = Last("create_booking", running.email, r.bid, r.pid, r.result,
                            create_booking_response(running.email, r.result))
  /\ running' = NoCall
  /\ UNCHANGED <<nextBookingId, ssevars, envvars, authvars>>

ListCustomerInputs == {NULL, "u1"}
ListProviderInputs == {NULL, "u2"}
SagaPatchInputs == {[NoPatch EXCEPT !.status = st] : st \in {"confirmed", "cancelled"}}

NextSaga ==
  \/ \E sid \in ServiceIdInputs, amount \in AmountInputs :
       CreateBookingInsert("e1", sid, "t1", NULL, amount)
  \/ CreateBookingReturn
  \/ \E bid \in BookingIdInputs, email \in {"e1", "e2", "e3"} :
       EventLoopFree /\ GetBooking(bid, email)
  \/ \E email \in {"e1", "e2", "e3"}, customerId \in ListCustomerInputs,
        providerId \in ListProviderInputs :
       EventLoopFree /\ ListBookings(email, customerId, providerId)
  \/ \E bid \in BookingIdInputs, patch \in SagaPatchInputs, email \in {"e1", "e2", "e3"} :
       EventLoopFree /\ UpdateBooking(bid, patch, email)
  \/ \E bid \in BookingIdInputs, email \in {"e1", "e2", "e3"} :
       EventLoopFree /\ DeleteBooking(bid, email)

SpecSaga == Init /\ [][NextSaga]_vars

\* the booking of the call in flight is stored and PENDING
InFlightPending ==
  /\ running # NoCall
  /\ running.bid \in DOMAIN bookings
  /\ bookings[running.bid].status = "pending"

\* a step of another request that reads or changes the booking in flight
TouchesInFlight ==
  \/ \E email \in Emails :
       GetBooking(running.bid, email) /\ get_booking(DB, running.bid) # NoBooking
  \/ \E email \in Emails, customerId \in ListCustomerInputs, providerId \in ListProviderInputs :
       /\ ListBookings(email, customerId, providerId)
       /\ get_by_email(email) # NoUser
       /\ running.bid \in list_bookings_controller(DB, email, customerId, providerId).rows
  \/ \E email \in Emails, patch \in SagaPatchInputs :
       UpdateBooking(running.bid, patch, email) /\ Authorized(DB, running.bid, email)
  \/ \E email \in Emails :
       DeleteBooking(running.bid, email) /\ Authorized(DB, running.bid, email)

NextBeat ==
  \/ Len(notifications) < MaxPosts /\ PostNotification("e1", "e1", "service_created")
  \/ RunBroadcast
  \/ \E c \in ConnIds : OpenConnection(c, "e1")
  \/ \E c \in ConnIds : ClientDisconnect(c)
  \/ \E c \in ConnIds : LoopCheck(c)
  \/ \E c \in ConnIds : LoopWait(c)

SpecBeat == Init /\ [][NextBeat]_vars

IsPrefix(s, t) == Len(s) <= Len(t) /\ \A i \in 1..Len(s) : s[i] = t[i]

NextLoop ==
  \/ \E c \in ConnIds, user_id \in StreamUsers : OpenConnection(c, user_id)
  \/ \E c \in ConnIds : ClientDisconnect(c)
  \/ \E c \in ConnIds : LoopCheck(c)
  \/ \E c \in ConnIds : LoopWait(c)

SpecLoop ==
  /\ Init /\ [][NextLoop]_vars
  /\ \A c \in ConnIds : WF_vars(LoopCheck(c)) /\ WF_vars(LoopWait(c))

\* C32: a stream whose client has disconnected has its loop exited and is
\* removed from the connection table later on; and a disconnected stream at
\* the top of its loop takes no step but the exit, so that at most one wait
\* lies between the disconnection and the exit.
C32_CancellationTerminates ==
  /\ \A c \in ConnIds :
       (conns[c].state = "open" /\ conns[c].disconnected)
         ~> (conns[c].state = "closed" /\ ~InRegistry(connections, c))
  /\ [][\A c \in ConnIds :
          (/\ conns[c].state = "open" /\ conns[c].disconnected
           /\ conns[c].pc = "check" /\ conns'[c] # conns[c])
          => conns'[c].state = "closed"]_vars

\* a stream exited after its client disconnected during the wait
C32_Witness ==
  \E c \in ConnIds :
    /\ conns[c].state = "closed" /\ conns[c].disconnected
    /\ conns[c].sent # << >>
    /\ ~InRegistry(connections, c)

\* the fields of a booking an update may not change
Fixed(b) == <<b.customerId, b.providerId, b.serviceId, b.duration, b.totalAmount, b.createdAt>>

StatusPatchInputs == {[NoPatch EXCEPT !.status = st] : st \in BookingStatus}

NextStatus ==
  \/ \E amount \in AmountInputs : CreateBooking("e1", "s1", "t1", NULL, amount)
  \/ \E bid \in BookingIdInputs, patch \in StatusPatchInputs, email \in {"e1", "e2", "e3"} :
       UpdateBooking(bid, patch, email)
  \/ RunBroadcast

SpecStatus == Init /\ [][NextStatus]_vars

\* C34: whatever status a stored booking has, an update_booking by its
\* customer or its provider naming any of the four statuses returns the
\* booking and leaves it stored with that status.
C34_UnrestrictedTransitions ==
  \A bid \in DOMAIN bookings, patch \in StatusPatchInputs, email \in {"e1", "e2"} :
    Authorized(DB, bid, email) =>
      LET r == update_booking(DB, bid, patch, email)
      IN /\ r.result = "booking"
         /\ r.db.bookings[bid].status = patch.status

\* a booking has been moved to COMPLETED, a status the saga never sets
C34_Witness ==
  /\ last.op = "update_booking" /\ last.result = "booking"
  /\ last.bid \in DOMAIN bookings
  /\ bookings[last.bid].status = "completed"

(***************************************************************************)
(* NotificationsRepository: mark read and delete.  A notification's id is  *)
(* its position in the table; a deleted row leaves DeletedRow behind so    *)
(* that the other ids stay what they were.  No query matches DeletedRow:   *)
(* every WHERE clause names a user_id.                                     *)
(***************************************************************************)
DeletedRow == [userId |-> NULL, type |-> NULL, ref |-> 0, isRead |-> FALSE,
               createdAt |-> NoDatetime, readAt |-> NoDatetime]

\* datetime.now(timezone.utc) as the value of a datetime column
utcnow(t) == t + 1

\* the UPDATE without user_id in its WHERE clause
mark_notification_as_read_AnyUser(rows, notification_id, user_id, t) ==
  IF notification_id \in 1..Len(rows) /\ rows[notification_id] # DeletedRow
    THEN [rows |-> [rows EXCEPT ![notification_id] =
                      [@ EXCEPT !.isRead = TRUE, !.readAt = utcnow(t)]],
          rowcount |-> 1]
    ELSE [rows |-> rows, rowcount |-> 0]

mark_notification_as_read(rows, notification_id, user_id, t) ==
  IF notification_id \in 1..Len(rows) /\ rows[notification_id].userId = user_id
    THEN [rows |-> [rows EXCEPT ![notification_id] =
                      [@ EXCEPT !.isRead = TRUE, !.readAt = utcnow(t)]],
          rowcount |-> 1]
    ELSE [rows |-> rows, rowcount |-> 0]

mark_all_notifications_as_read(rows, user_id, t) ==
  [rows |-> [n \in 1..Len(rows) |->
               IF rows[n].userId = user_id /\ ~rows[n].isRead
                 THEN [rows[n] EXCEPT !.isRead = TRUE, !.readAt = utcnow(t)]
                 ELSE rows[n]],
   rowcount |-> Cardinality({n \in 1..Len(rows) : rows[n].userId = user_id /\ ~rows[n].isRead})]

delete_notification(rows, notification_id, user_id) ==
  IF notification_id \in 1..Len(rows) /\ rows[notification_id].userId = user_id
    THEN [rows |-> [rows EXCEPT ![notification_id] = DeletedRow], rowcount |-> 1]
    ELSE [rows |-> rows, rowcount |-> 0]

\* PUT /notifications/{notification_id}/read
MarkAsRead(notification_id, email) ==
  LET r == mark_notification_as_read(notifications, notification_id, email, now)
  IN /\ notifications' = IF get_by_email(email) = NoUser THEN notifications ELSE r.rows
     /\ last' = Last("mark_as_read", email, notification_id, 0,
                     IF get_by_email(email) # NoUser /\ r.rowcount > 0 THEN "true" ELSE "false",
                     IF get_by_email(email) = NoUser THEN Unauthenticated
                     ELSE IF r.rowcount > 0 THEN Response(200, "Notification marked as read")
                     ELSE Response(404, "Notification not found or you don't have permission to modify it"))
     /\ UNCHANGED <<bookings, nextBookingId, payments, refunds, tasks, ssevars, envvars,
                    authvars, running>>

\* PUT /notifications/read-all
MarkAllAsRead(email) ==
  LET r == mark_all_notifications_as_read(notifications, email, now)
  IN /\ notifications' = IF get_by_email(email) = NoUser THEN notifications ELSE r.rows
     /\ last' = Last("mark_all_as_read", email, 0, 0,
                     IF get_by_email(email) = NoUser THEN "none" ELSE "count",
                     IF get_by_email(email) = NoUser THEN Unauthenticated
                     ELSE Response(200, "Marked notifications as read"))
     /\ UNCHANGED <<bookings, nextBookingId, payments, refunds, tasks, ssevars, envvars,
                    authvars, running>>

\* DELETE /notifications/{notification_id}
DeleteNotification(notification_id, email) ==
  LET r == delete_notification(notifications, notification_id, email)
  IN /\ notifications' = IF get_by_email(email) = NoUser THEN notifications ELSE r.rows
     /\ last' = Last("delete_notification", email, notification_id, 0,
                     IF get_by_email(email) # NoUser /\ r.rowcount > 0 THEN "true" ELSE "false",
                     IF get_by_email(email) = NoUser THEN Unauthenticated
                     ELSE IF r.rowcount > 0 THEN Response(200, "Notification deleted")
                     ELSE Response(404, "Notification not found or you don't have permission to delete it"))
     /\ UNCHANGED <<bookings, nextBookingId, payments, refunds, tasks, ssevars, envvars,
                    authvars, running>>

NotificationIdInputs == 1..(MaxPosts + 1)

NextNotif ==
  \/ \E userId \in StreamUsers :
       Len(notifications) < MaxPosts /\ PostNotification("e1", userId, "service_created")
  \/ \E n \in NotificationIdInputs, email \in {"e1", "e2", "e4"} : MarkAsRead(n, email)
  \/ \E email \in {"e1", "e2", "e4"} : MarkAllAsRead(email)
  \/ \E n \in NotificationIdInputs, email \in {"e1", "e2", "e4"} : DeleteNotification(n, email)
  \/ Tick

SpecNotif == Init /\ [][NextNotif]_vars

\* C35: a step that leaves a notification read sets readAt when the
\* notification was unread before, and a mark-one-read or mark-all-read leaves
\* isRead and readAt of an already read notification as they were.
C35_ReadAtSetOnce ==
  [][\A n \in 1..Len(notifications) :
       /\ (~notifications[n].isRead /\ notifications'[n].isRead)
            => notifications'[n].readAt # NoDatetime
       /\ (notifications[n].isRead /\ last'.op \in {"mark_as_read", "mark_all_as_read"})
            => /\ notifications'[n].isRead
               /\ notifications'[n].readAt = notifications[n].readAt]_vars

\* C36: a stored notification changes only in a mark-one-read, mark-all-read
\* or delete step of the user whose e-mail is its userId (and, for
\* mark-one-read and delete, only the one named by the request); a
\* mark-one-read or delete naming a notification of another user is answered
\* 404 and leaves it as it was.
C36_NotificationOwnership ==
  [][\A n \in 1..Len(notifications) :
       /\ notifications'[n] # notifications[n] =>
            /\ last'.op \in {"mark_as_read", "mark_all_as_read", "delete_notification"}
            /\ notifications[n].userId = last'.requester
            /\ last'.op # "mark_all_as_read" => last'.bid = n
       /\ (/\ last'.op \in {"mark_as_read", "delete_notification"}
           /\ last'.bid = n
           /\ notifications[n] # DeletedRow
           /\ notifications[n].userId # last'.requester) =>
            /\ last'.http.status \in {401, 404}
            /\ notifications'[n] = notifications[n]]_vars

\* e1 was refused on a notification of e2, which is still unread
C36_Witness ==
  /\ last.op \in {"mark_as_read", "delete_notification"}
  /\ last.requester = "e1"
  /\ last.http.status = 404
  /\ last.bid \in 1..Len(notifications)
  /\ notifications[last.bid].userId = "e2"
  /\ ~notifications[last.bid].isRead
  /\ \E n \in 1..Len(notifications) : notifications[n].userId = "e1" /\ notifications[n].isRead

\* C37: every stored payment_success, payment_failed or refund_processed
\* notification is addressed to the customer (by e-mail or by id) of the
\* booking its payment belongs to.
C37_PaymentNotificationAddressee ==
  \A n \in 1..Len(notifications) :
    notifications[n].type \in {"payment_success", "payment_failed", "refund_processed"} =>
      /\ notifications[n].ref \in DOMAIN payments
      /\ payments[notifications[n].ref].bookingId \in DOMAIN bookings
      /\ \E u \in Users :
           /\ u.id = bookings[payments[notifications[n].ref].bookingId].customerId
           /\ notifications[n].userId \in {u.id, u.email}

(***************************************************************************)
(* process_refund seen at its repository calls: the payment is read and    *)
(* found completed, then the refund is inserted and the payment marked     *)
(* refunded.  As with create_booking the handler awaits nothing, so the    *)
(* event loop starts no other handler in between.                          *)
(***************************************************************************)
\* up to and including the status check
ProcessRefundRead(pid, reason) ==
  /\ EventLoopFree
  /\ RefundEligible(DB, pid)
  /\ running' = [NoCall EXCEPT !.op = "process_refund", !.pid = pid, !.reason = reason]
  /\ UNCHANGED <<dbvars, last, ssevars, envvars, authvars>>

\* create_refund, update_payment_status and the notification, for the
\* payment as it was read; the step follows a read, so the number of its
\* notifications needs no bound of its own
process_refund_write(db, inst, pid, reason) ==
  LET refund == [paymentId |-> pid, status |-> "completed",
                 amount |-> db.payments[pid].amount,
                 reason |-> IF reason = NULL THEN "Customer requested refund" ELSE reason]
      db1 == create_refund(db, refund)
      db2 == update_payment_status(db1, pid, "refunded")
  IN [db |-> swallow(create_payment_notification(db2, inst, PlaceholderUser, pid,
                                                 "refund_processed")),
      rid |-> Len(db.refunds) + 1]

ProcessRefundWrite ==
  /\ running.op = "process_refund"
  /\ LET r == process_refund_write(DB, RequestInst, running.pid, running.reason)
     IN /\ bookings' = r.db.bookings
        /\ payments' = r.db.payments
        /\ refunds' = r.db.refunds
        /\ notifications' = r.db.notifications
        /\ tasks' = r.db.tasks
        /\ last' = Last("process_refund", NULL, 0, running.pid, "refund",
                        process_refund_response(r.rid))
  /\ running' = NoCall
  /\ UNCHANGED <<nextBookingId, ssevars, envvars, authvars>>

NextRefund ==
  \/ \E amount \in AmountInputs :
       EventLoopFree /\ CreateBooking("e1", "s1", "t1", NULL, amount)
  \/ \E pid \in PaymentIdInputs, reason \in RefundReasonInputs : ProcessRefundRead(pid, reason)
  \/ ProcessRefundWrite
  \/ \E pid \in PaymentIdInputs, reason \in RefundReasonInputs :
       EventLoopFree /\ ProcessRefund(pid, reason)
  \/ EventLoopFree /\ RunBroadcast

SpecRefund == Init /\ [][NextRefund]_vars

C39_AmountConsistency ==
  (last.op = "create_booking" /\ last.result = "booking") =>
    /\ bookings[last.bid].status = "confirmed"
    /\ bookings[last.bid].totalAmount = get_service(bookings[last.bid].serviceId).price
    /\ payments[last.pid].status = "completed"
    /\ payments[last.pid].amount = bookings[last.bid].totalAmount

\* C40: an UpdateBooking or DeleteBooking naming a booking that is not
\* stored, or made by a requester who has no user row or is neither the
\* customer nor the provider of the booking, leaves the bookings, payments,
\* refunds and notifications as they were and schedules no broadcast.
C40_RejectedNoEffect ==
  [][(last'.op \in {"update_booking", "delete_booking"} /\ ~PartyOf(last'.bid, last'.requester)) =>
       \A bid \in {last'.bid}, email \in {last'.requester} :
         /\ \A patch \in PatchInputs :
              UpdateBooking(bid, patch, email) =>
                /\ last'.result = "none"
                /\ UNCHANGED <<bookings, payments, refunds, notifications, tasks>>
         /\ DeleteBooking(bid, email) =>
              /\ last'.result = "false"
              /\ UNCHANGED <<bookings, payments, refunds, notifications, tasks>>]_vars

\* a requester who is no party, or has no user row, was turned away from a
\* stored booking
C40_Witness ==
  /\ last.op \in {"update_booking", "delete_booking"}
  /\ last.requester \in {"e3", "e4"}
  /\ last.bid \in DOMAIN bookings
  /\ last.result \in {"none", "false"}
  /\ last.http.status \in {401, 404}
  /\ notifications # << >>

====
